---- MODULE Spec2Model ----
(***************************************************************************)
(* Account REST service (service/routes.py): the HTTP handlers over the    *)
(* Account table.  The persistence layer (service/models.py) and the error *)
(* handlers (service/common/error_handlers.py) are modelled from the       *)
(* service's specification.                                                *)
(***************************************************************************)
EXTENDS Integers, Sequences, FiniteSets, TLC

VARIABLES store,      \* the Account table: a set of rows
          nextId,     \* the table's id sequence: the id the next INSERT gets
          req,        \* the request handled last
          resp,       \* its response
          nCreated,   \* history: rows inserted so far
          nRemoved,   \* history: rows removed so far
          pc,         \* concurrent handling: each worker's position
          creq,       \* concurrent handling: each worker's request
          found,      \* concurrent handling: each worker's search_result
          cresp,      \* concurrent handling: each worker's response
          store0,     \* concurrent handling: the table when the round began
          nextId0     \* concurrent handling: the sequence when the round began

vars == <<store, nextId, req, resp, nCreated, nRemoved,
          pc, creq, found, cresp, store0, nextId0>>

seqVars == <<store, nextId, req, resp, nCreated, nRemoved>>
concVars == <<pc, creq, found, cresp, store0, nextId0>>

(***************************************************************************)
(* Bounds                                                                  *)
(***************************************************************************)
MaxId == 3          \* ids the sequence hands out, and the ids requests name

(***************************************************************************)
(* HTTP status codes                                                       *)
(***************************************************************************)
HTTP_200_OK == 200
HTTP_201_CREATED == 201
HTTP_204_NO_CONTENT == 204
HTTP_400_BAD_REQUEST == 400
HTTP_404_NOT_FOUND == 404
HTTP_405_METHOD_NOT_ALLOWED == 405
HTTP_415_UNSUPPORTED_MEDIA_TYPE == 415
HTTP_500_INTERNAL_SERVER_ERROR == 500

(***************************************************************************)
(* JSON values.  A phone number arrives as a JSON string or a JSON number. *)
(* An ISO date string is a sequence of characters.                         *)
(***************************************************************************)
PhoneStr(s) == [t |-> "str", s |-> s, n |-> 0]
PhoneNum(n) == [t |-> "num", s |-> "", n |-> n]
PhoneNone == [t |-> "none", s |-> "", n |-> 0]

NoDate == [year |-> 0, month |-> 0, day |-> 0]
Today == [year |-> 2024, month |-> 2, day |-> 9]

DigitVal(c) == CHOOSE n \in 0..9 : ToString(n) = c

\* date.fromisoformat: "YYYY-MM-DD"
DateFromIso(s) ==
  [year  |-> 1000 * DigitVal(s[1]) + 100 * DigitVal(s[2])
             + 10 * DigitVal(s[3]) + DigitVal(s[4]),
   month |-> 10 * DigitVal(s[6]) + DigitVal(s[7]),
   day   |-> 10 * DigitVal(s[9]) + DigitVal(s[10])]

\* date.isoformat
IsoFormat(d) ==
  << ToString(d.year \div 1000), ToString((d.year \div 100) % 10),
     ToString((d.year \div 10) % 10), ToString(d.year % 10), "-",
     ToString(d.month \div 10), ToString(d.month % 10), "-",
     ToString(d.day \div 10), ToString(d.day % 10) >>

\* the String column: a number bound to it is stored as its decimal text
CoerceStr(p) == IF p.t = "num" THEN PhoneStr(ToString(p.n)) ELSE p

(***************************************************************************)
(* Requests                                                                *)
(***************************************************************************)
Iso2022 == <<"2", "0", "2", "2", "-", "0", "1", "-", "0", "1">>

JsonBody(d) == [json |-> TRUE, data |-> d]
NoJson == [json |-> FALSE, data |-> [k \in {} |-> 0]]

BodyRofrano ==
  JsonBody([name |-> "Rofrano", email |-> "rofrano@example.com",
            address |-> "123 Main St", phone_number |-> PhoneStr("555-1234"),
            date_joined |-> Iso2022])
BodyJeronimo ==
  JsonBody([name |-> "Jeronimo", email |-> "j@example.com",
            address |-> "1 Elm St", phone_number |-> PhoneNum(42)])
\* a body that carries an id of its own (that of the first account created)
BodyWithId ==
  JsonBody([id |-> 1, name |-> "Jeronimo", email |-> "j@example.com",
            address |-> "1 Elm St", phone_number |-> PhoneNum(42)])
BodyEmpty == JsonBody([k \in {} |-> 0])
BodyNameOnly == JsonBody([name |-> "not enough data"])
BodyNoAddress ==
  JsonBody([name |-> "Partial", email |-> "p@example.com",
            phone_number |-> PhoneStr("555-0000")])
BodyNoPhone ==
  JsonBody([name |-> "Partial", email |-> "p@example.com",
            address |-> "9 Oak St"])

ValidBodies == {BodyRofrano, BodyJeronimo, BodyWithId}
InvalidBodies == {BodyEmpty, BodyNameOnly, BodyNoAddress, BodyNoPhone, NoJson}
Bodies == ValidBodies \cup InvalidBodies

NoHeader == "<absent>"
ContentTypes == {"application/json", "test/html", NoHeader}

PathIds == 0..MaxId

Request(m, p, i, ct, b) ==
  [method |-> m, path |-> p, id |-> i, ctype |-> ct, body |-> b]

NoRequest == Request("-", "-", 0, NoHeader, NoJson)

(***************************************************************************)
(* Responses                                                               *)
(***************************************************************************)
Response(st, k, b, pl, msg, loc) ==
  [status |-> st, kind |-> k, body |-> b, payload |-> pl,
   message |-> msg, location |-> loc]

NoResponse == Response(0, "-", <<>>, <<>>, <<>>, "")

\* jsonify of one serialized Account
JsonObject(st, a, loc) == Response(st, "object", <<a>>, <<>>, <<>>, loc)
\* jsonify of a list of serialized Accounts
JsonArray(st, as) == Response(st, "array", as, <<>>, <<>>, "")
\* jsonify of fixed key/value pairs
JsonFixed(st, pl) == Response(st, "object", <<>>, pl, <<>>, "")
\* abort(status, description)
Abort(st, msg) == Response(st, "error", <<>>, <<>>, msg, "")

\* abort(404) without a description: werkzeug's own text
DefaultNotFound ==
  <<"The requested URL was not found on the server.">>

(***************************************************************************)
(* service.models.Account: the persistence accessor                        *)
(***************************************************************************)
\* Account(): a fresh object, no field set
NewAccount ==
  [id |-> 0, name |-> "", email |-> "", address |-> "",
   phone_number |-> PhoneNone, date_joined |-> NoDate]

Ids(db) == {r.id : r \in db}

\* Account.find(id): the row with that primary key, or None
Account_find(db, id) ==
  IF \E r \in db : r.id = id
    THEN [found |-> TRUE, obj |-> CHOOSE r \in db : r.id = id]
    ELSE [found |-> FALSE, obj |-> NewAccount]

RECURSIVE SortById(_)
SortById(rows) ==
  IF rows = {} THEN <<>>
  ELSE LET first == CHOOSE r \in rows : \A q \in rows : r.id <= q.id
       IN <<first>> \o SortById(rows \ {first})

\* Account.all(): every row, in primary-key order
Account_all(db) == SortById(db)

\* Account.serialize(): the columns as a dict, the date in ISO format
serialize(obj) ==
  [id |-> obj.id, name |-> obj.name, email |-> obj.email,
   address |-> obj.address, phone_number |-> obj.phone_number,
   date_joined |-> IsoFormat(obj.date_joined)]

\* Account.deserialize(data): the fields are assigned one after the other, and
\* a missing key or a body that is no dict raises DataValidationError with the
\* earlier assignments already made on the object.  The id is never read.
deserialize(obj, body) ==
  IF ~body.json THEN [ok |-> FALSE, obj |-> obj]
  ELSE LET data == body.data
           has(k) == k \in DOMAIN data
           o1 == IF has("name") THEN [obj EXCEPT !.name = data.name] ELSE obj
           o2 == IF has("email") THEN [o1 EXCEPT !.email = data.email] ELSE o1
           o3 == IF has("address")
                   THEN [o2 EXCEPT !.address = data.address] ELSE o2
           o4 == IF has("phone_number")
                   THEN [o3 EXCEPT !.phone_number = data.phone_number] ELSE o3
           o5 == [o4 EXCEPT !.date_joined =
                     IF has("date_joined") THEN DateFromIso(data.date_joined)
                     ELSE Today]
       IN  IF ~has("name") THEN [ok |-> FALSE, obj |-> obj]
           ELSE IF ~has("email") THEN [ok |-> FALSE, obj |-> o1]
           ELSE IF ~has("address") THEN [ok |-> FALSE, obj |-> o2]
           ELSE IF ~has("phone_number") THEN [ok |-> FALSE, obj |-> o3]
           ELSE [ok |-> TRUE, obj |-> o5]

\* what a committed row holds of an object: the String column's coercion
PersistRow(obj) == [obj EXCEPT !.phone_number = CoerceStr(@)]

\* Account.create(): INSERT with the next id of the sequence, commit, refresh
Account_create(db, seq, obj) ==
  LET row == PersistRow([obj EXCEPT !.id = seq])
  IN  [ok |-> TRUE, obj |-> row, db |-> db \cup {row}, seq |-> seq + 1]

\* what an UPDATE does when its row is gone (another request deleted it after
\* this one's find): the accessor raises, or matches no row and says nothing,
\* or writes the row back
StaleOutcomes == {"raise", "lost", "rewrite"}

\* Account.update(): UPDATE the row with the object's id, commit, refresh
Account_update(db, obj, stale) ==
  LET row == PersistRow(obj)
  IN  IF obj.id \in Ids(db)
        THEN [ok |-> TRUE, obj |-> row,
              db |-> {r \in db : r.id # obj.id} \cup {row}]
      ELSE IF stale = "raise" THEN [ok |-> FALSE, obj |-> obj, db |-> db]
      ELSE IF stale = "lost" THEN [ok |-> TRUE, obj |-> row, db |-> db]
      ELSE [ok |-> TRUE, obj |-> row, db |-> db \cup {row}]

\* Account.delete(): DELETE the row with the object's id, commit
Account_delete(db, obj) == {r \in db : r.id # obj.id}

(***************************************************************************)
(* service.common.error_handlers and the framework                         *)
(***************************************************************************)
\* DataValidationError -> 400
request_validation_error == Abort(HTTP_400_BAD_REQUEST, <<"Invalid Account">>)

\* an exception no handler catches -> 500
internal_server_error ==
  Abort(HTTP_500_INTERNAL_SERVER_ERROR, <<"Internal Server Error">>)

\* request.get_json() of a request whose Content-Type is not JSON: the body is
\* not parsed; the framework answers 400 or 415, by its version
JsonFailures == {HTTP_400_BAD_REQUEST, HTTP_415_UNSUPPORTED_MEDIA_TYPE}

get_json(rq, fail) ==
  IF rq.ctype = "application/json"
    THEN [ok |-> TRUE, body |-> rq.body, resp |-> NoResponse]
    ELSE [ok |-> FALSE, body |-> NoJson,
          resp |-> Abort(fail, <<"Did not attempt to load JSON data">>)]

\* the routes' methods, as the app.route decorators give them
Paths == {"/health", "/", "/accounts", "/accounts/<id>"}
Methods == {"GET", "POST", "PUT", "DELETE"}

Allowed(path) ==
  CASE path = "/health" -> {"GET"}
    [] path = "/" -> {"GET"}
    [] path = "/accounts" -> {"POST", "GET"}
    [] path = "/accounts/<id>" -> {"GET", "PUT", "DELETE"}

method_not_allowed ==
  Abort(HTTP_405_METHOD_NOT_ALLOWED, <<"Method Not Allowed">>)

(***************************************************************************)
(* service/routes.py                                                       *)
(***************************************************************************)
Result(r, db, seq) == [resp |-> r, store |-> db, nextId |-> seq]

health == JsonFixed(HTTP_200_OK, << <<"status", "OK">> >>)

index ==
  JsonFixed(HTTP_200_OK,
            << <<"name", "Account REST API Service">>, <<"version", "1.0">> >>)

\* check_content_type that only asks for the header to be there
check_content_type_any(rq, media_type) ==
  IF rq.ctype # NoHeader
    THEN [ok |-> TRUE, resp |-> NoResponse]
    ELSE [ok |-> FALSE,
          resp |-> Abort(HTTP_415_UNSUPPORTED_MEDIA_TYPE,
                         <<"Content-Type must be", media_type>>)]


check_content_type(rq, media_type) ==
  IF rq.ctype # NoHeader /\ rq.ctype = media_type
    THEN [ok |-> TRUE, resp |-> NoResponse]
    ELSE [ok |-> FALSE,
          resp |-> Abort(HTTP_415_UNSUPPORTED_MEDIA_TYPE,
                         <<"Content-Type must be", media_type>>)]

create_accounts(db, seq, rq) ==
  LET ct == check_content_type(rq, "application/json")
      d == deserialize(NewAccount, rq.body)
      c == Account_create(db, seq, d.obj)
  IN  IF ~ct.ok THEN Result(ct.resp, db, seq)
      ELSE IF ~d.ok THEN Result(request_validation_error, db, seq)
      ELSE Result(JsonObject(HTTP_201_CREATED, serialize(c.obj), "/"),
                  c.db, c.seq)

MapSerialize(accs) == [i \in 1..Len(accs) |-> serialize(accs[i])]

\* list_accounts whose loop starts one element late
list_accounts_skip(db) ==
  JsonArray(HTTP_200_OK,
            MapSerialize(SubSeq(Account_all(db), 2, Len(Account_all(db)))))


list_accounts(db) == JsonArray(HTTP_200_OK, MapSerialize(Account_all(db)))

NotFoundMessage(id) ==
  <<"Account with id", ToString(id), "could not be found :(">>

\* read_account with was_found inverted
read_account_inverted(db, id) ==
  LET search_result == Account_find(db, id)
      was_found == ~search_result.found
      status_code == IF was_found THEN HTTP_200_OK ELSE HTTP_404_NOT_FOUND
  IN  IF ~was_found THEN Abort(status_code, NotFoundMessage(id))
      ELSE JsonObject(status_code, serialize(search_result.obj), "")


read_account(db, id) ==
  LET search_result == Account_find(db, id)
      was_found == search_result.found
      status_code == IF was_found THEN HTTP_200_OK ELSE HTTP_404_NOT_FOUND
  IN  IF ~was_found THEN Abort(status_code, NotFoundMessage(id))
      ELSE JsonObject(status_code, serialize(search_result.obj), "")

\* update_accounts without its search_result.update() line
update_found_no_update(db, seq, search_result, rq, fail, stale) ==
  LET was_found == search_result.found
      status_code == IF was_found THEN HTTP_200_OK ELSE HTTP_404_NOT_FOUND
      j == get_json(rq, fail)
      d == deserialize(search_result.obj, j.body)
  IN  IF ~was_found THEN Result(Abort(status_code, DefaultNotFound), db, seq)
      ELSE IF ~j.ok THEN Result(j.resp, db, seq)
      ELSE IF ~d.ok THEN Result(request_validation_error, db, seq)
      ELSE Result(JsonObject(status_code, serialize(d.obj), ""), db, seq)

\* update_accounts that also takes the id from the body
update_found_body_id(db, seq, search_result, rq, fail, stale) ==
  LET was_found == search_result.found
      status_code == IF was_found THEN HTTP_200_OK ELSE HTTP_404_NOT_FOUND
      j == get_json(rq, fail)
      d == deserialize(search_result.obj, j.body)
      o == IF j.body.json /\ "id" \in DOMAIN j.body.data
             THEN [d.obj EXCEPT !.id = j.body.data.id] ELSE d.obj
      row == PersistRow(o)
  IN  IF ~was_found THEN Result(Abort(status_code, DefaultNotFound), db, seq)
      ELSE IF ~j.ok THEN Result(j.resp, db, seq)
      ELSE IF ~d.ok THEN Result(request_validation_error, db, seq)
      ELSE Result(JsonObject(status_code, serialize(row), ""),
                  {r \in db : r # search_result.obj} \cup {row}, seq)

\* update_accounts that goes on after a failed deserialize
update_found_unvalidated(db, seq, search_result, rq, fail, stale) ==
  LET was_found == search_result.found
      status_code == IF was_found THEN HTTP_200_OK ELSE HTTP_404_NOT_FOUND
      j == get_json(rq, fail)
      d == deserialize(search_result.obj, j.body)
      u == Account_update(db, d.obj, stale)
  IN  IF ~was_found THEN Result(Abort(status_code, DefaultNotFound), db, seq)
      ELSE IF ~j.ok THEN Result(j.resp, db, seq)
      ELSE IF ~u.ok THEN Result(internal_server_error, db, seq)
      ELSE Result(JsonObject(status_code, serialize(u.obj), ""), u.db, seq)

\* update_accounts whose half-assigned object is committed before the 400
update_found_partial(db, seq, search_result, rq, fail, stale) ==
  LET was_found == search_result.found
      status_code == IF was_found THEN HTTP_200_OK ELSE HTTP_404_NOT_FOUND
      j == get_json(rq, fail)
      d == deserialize(search_result.obj, j.body)
      u == Account_update(db, d.obj, stale)
  IN  IF ~was_found THEN Result(Abort(status_code, DefaultNotFound), db, seq)
      ELSE IF ~j.ok THEN Result(j.resp, db, seq)
      ELSE IF ~d.ok THEN Result(request_validation_error, u.db, seq)
      ELSE IF ~u.ok THEN Result(internal_server_error, db, seq)
      ELSE Result(JsonObject(status_code, serialize(u.obj), ""), u.db, seq)

\* update_accounts from its second line on: search_result is in hand
update_found(db, seq, search_result, rq, fail, stale) ==
  LET was_found == search_result.found
      status_code == IF was_found THEN HTTP_200_OK ELSE HTTP_404_NOT_FOUND
      j == get_json(rq, fail)
      d == deserialize(search_result.obj, j.body)
      u == Account_update(db, d.obj, stale)
  IN  IF ~was_found THEN Result(Abort(status_code, DefaultNotFound), db, seq)
      ELSE IF ~j.ok THEN Result(j.resp, db, seq)
      ELSE IF ~d.ok THEN Result(request_validation_error, db, seq)
      ELSE IF ~u.ok THEN Result(internal_server_error, db, seq)
      ELSE Result(JsonObject(status_code, serialize(u.obj), ""), u.db, seq)

update_accounts(db, seq, rq, fail, stale) ==
  update_found(db, seq, Account_find(db, rq.id), rq, fail, stale)

\* delete_account that aborts on an id it does not find
delete_found_strict(db, seq, search_result) ==
  LET was_found == search_result.found
  IN  IF was_found
        THEN Result(Response(HTTP_204_NO_CONTENT, "empty", <<>>, <<>>, <<>>, ""),
                    Account_delete(db, search_result.obj), seq)
        ELSE Result(Abort(HTTP_404_NOT_FOUND, DefaultNotFound), db, seq)

\* delete_account from its second line on
delete_found(db, seq, search_result) ==
  LET was_found == search_result.found
  IN  Result(Response(HTTP_204_NO_CONTENT, "empty", <<>>, <<>>, <<>>, ""),
             IF was_found THEN Account_delete(db, search_result.obj) ELSE db,
             seq)

delete_account(db, seq, id) == delete_found(db, seq, Account_find(db, id))

(***************************************************************************)
(* One request at a time                                                   *)
(***************************************************************************)
Idle ==
  /\ pc = [w \in {} |-> ""] /\ creq = pc /\ found = pc /\ cresp = pc
  /\ store0 = {} /\ nextId0 = 0

Init ==
  /\ store = {} /\ nextId = 1
  /\ req = NoRequest /\ resp = NoResponse
  /\ nCreated = 0 /\ nRemoved = 0
  /\ Idle

Answer(rq, res) ==
  /\ req' = rq
  /\ resp' = res.resp
  /\ store' = res.store
  /\ nextId' = res.nextId
  /\ nCreated' = nCreated + Cardinality(res.store \ store)
                 - Cardinality({r \in res.store \ store : r.id \in Ids(store)})
  /\ nRemoved' = nRemoved + Cardinality(Ids(store) \ Ids(res.store))
  /\ UNCHANGED concVars

Health ==
  Answer(Request("GET", "/health", 0, NoHeader, NoJson),
         Result(health, store, nextId))

Index ==
  Answer(Request("GET", "/", 0, NoHeader, NoJson),
         Result(index, store, nextId))

Create ==
  /\ nextId <= MaxId
  /\ \E ct \in ContentTypes, b \in Bodies :
       LET rq == Request("POST", "/accounts", 0, ct, b)
       IN  Answer(rq, create_accounts(store, nextId, rq))

List ==
  Answer(Request("GET", "/accounts", 0, NoHeader, NoJson),
         Result(list_accounts(store), store, nextId))

Read ==
  \E id \in PathIds :
    Answer(Request("GET", "/accounts/<id>", id, NoHeader, NoJson),
           Result(read_account(store, id), store, nextId))

Update ==
  \E id \in PathIds, ct \in ContentTypes, b \in Bodies, fail \in JsonFailures :
    \* a body that is not sent as JSON is never parsed: two of them suffice
    /\ (ct # "application/json" => b \in {BodyRofrano, BodyEmpty})
    /\ (ct = "application/json" => fail = HTTP_400_BAD_REQUEST)
    /\ LET rq == Request("PUT", "/accounts/<id>", id, ct, b)
       IN  Answer(rq, update_accounts(store, nextId, rq, fail, "raise"))

Delete ==
  \E id \in PathIds :
    Answer(Request("DELETE", "/accounts/<id>", id, NoHeader, NoJson),
           delete_account(store, nextId, id))

MethodNotAllowed ==
  \E p \in Paths, m \in Methods, id \in PathIds :
    /\ m \notin Allowed(p)
    /\ (p # "/accounts/<id>" => id = 0)
    /\ Answer(Request(m, p, id, "application/json", BodyRofrano),
              Result(method_not_allowed, store, nextId))

Next ==
  \/ Health \/ Index \/ Create \/ List \/ Read \/ Update \/ Delete
  \/ MethodNotAllowed

Spec == Init /\ [][Next]_vars

(***************************************************************************)
(* Simultaneous requests: two workers, each with a session of its own on   *)
(* the shared table.  A handler's Account.find and the update or delete    *)
(* that follows it are separate statements against the table; a read and   *)
(* an INSERT are one statement each.                                       *)
(***************************************************************************)
Workers == {1, 2}

CRequests ==
  {Request("PUT", "/accounts/<id>", id, "application/json", b) :
     id \in 1..MaxId, b \in {BodyRofrano, BodyJeronimo}}
  \cup {Request("DELETE", "/accounts/<id>", id, NoHeader, NoJson) :
          id \in 1..MaxId}
  \cup {Request("GET", "/accounts/<id>", id, NoHeader, NoJson) :
          id \in 1..MaxId}
  \cup {Request("POST", "/accounts", 0, "application/json", BodyRofrano)}

NotFound == [found |-> FALSE, obj |-> NewAccount]

InitConc ==
  /\ store = {} /\ nextId = 1
  /\ req = NoRequest /\ resp = NoResponse
  /\ nCreated = 0 /\ nRemoved = 0
  /\ pc = [w \in Workers |-> "idle"]
  /\ creq = [w \in Workers |-> NoRequest]
  /\ found = [w \in Workers |-> NotFound]
  /\ cresp = [w \in Workers |-> NoResponse]
  /\ store0 = {} /\ nextId0 = 1

FirstStep(rq) ==
  IF rq.method \in {"PUT", "DELETE"} THEN "find" ELSE "serve"

\* two requests arrive together
StartRound ==
  /\ \A w \in Workers : pc[w] = "idle"
  /\ \E r1 \in CRequests, r2 \in CRequests :
       \* the sequence is capped: every INSERT of the round gets an id <= MaxId
       /\ nextId + Cardinality({r \in {<<1, r1>>, <<2, r2>>} :
                                 r[2].method = "POST"}) <= MaxId + 1
       /\ creq' = [w \in Workers |-> IF w = 1 THEN r1 ELSE r2]
       /\ pc' = [w \in Workers |-> FirstStep(IF w = 1 THEN r1 ELSE r2)]
  /\ found' = [w \in Workers |-> NotFound]
  /\ cresp' = [w \in Workers |-> NoResponse]
  /\ store0' = store /\ nextId0' = nextId
  /\ UNCHANGED seqVars

\* search_result = Account.find(id)
Find(w) ==
  /\ pc[w] = "find"
  /\ found' = [found EXCEPT ![w] = Account_find(store, creq[w].id)]
  /\ pc' = [pc EXCEPT ![w] = "mutate"]
  /\ UNCHANGED <<creq, cresp, store0, nextId0>>
  /\ UNCHANGED seqVars

Finish(w, res) ==
  /\ cresp' = [cresp EXCEPT ![w] = res.resp]
  /\ store' = res.store
  /\ nextId' = res.nextId
  /\ pc' = [pc EXCEPT ![w] = "done"]
  /\ UNCHANGED <<creq, found, store0, nextId0, req, resp, nCreated, nRemoved>>

\* the rest of update_accounts, on the table as it is by now
UpdateFound(w) ==
  /\ pc[w] = "mutate" /\ creq[w].method = "PUT"
  /\ \E stale \in StaleOutcomes :
       Finish(w, update_found(store, nextId, found[w], creq[w],
                              HTTP_400_BAD_REQUEST, stale))

\* the rest of delete_account, on the table as it is by now
DeleteFound(w) ==
  /\ pc[w] = "mutate" /\ creq[w].method = "DELETE"
  /\ Finish(w, delete_found(store, nextId, found[w]))

ServeRead(w) ==
  /\ pc[w] = "serve" /\ creq[w].method = "GET"
  /\ Finish(w, Result(read_account(store, creq[w].id), store, nextId))

ServeCreate(w) ==
  /\ pc[w] = "serve" /\ creq[w].method = "POST"
  /\ Finish(w, create_accounts(store, nextId, creq[w]))

EndRound ==
  /\ \A w \in Workers : pc[w] = "done"
  /\ pc' = [w \in Workers |-> "idle"]
  /\ UNCHANGED <<creq, found, cresp, store0, nextId0>>
  /\ UNCHANGED seqVars

NextConc ==
  \/ StartRound
  \/ \E w \in Workers : Find(w)
  \/ \E w \in Workers : UpdateFound(w)
  \/ \E w \in Workers : DeleteFound(w)
  \/ \E w \in Workers : ServeRead(w)
  \/ \E w \in Workers : ServeCreate(w)
  \/ EndRound

SpecConc == InitConc /\ [][NextConc]_vars

\* one request handled alone, start to end
Handle(db, seq, rq) ==
  CASE rq.method = "PUT" ->
         update_accounts(db, seq, rq, HTTP_400_BAD_REQUEST, "raise")
    [] rq.method = "DELETE" -> delete_account(db, seq, rq.id)
    [] rq.method = "GET" -> Result(read_account(db, rq.id), db, seq)
    [] rq.method = "POST" -> create_accounts(db, seq, rq)

\* the round's requests handled one after the other, a first and b second
Sequential(a, b) ==
  LET ra == Handle(store0, nextId0, creq[a])
      rb == Handle(ra.store, ra.nextId, creq[b])
  IN  [resp |-> [w \in Workers |-> IF w = a THEN ra.resp ELSE rb.resp],
       store |-> rb.store]

AllDone == \A w \in Workers : pc[w] = "done"

Linearizable ==
  \E a \in Workers, b \in Workers :
    /\ a # b
    /\ Sequential(a, b).resp = cresp
    /\ Sequential(a, b).store = store

(***************************************************************************)
(* Properties                                                              *)
(***************************************************************************)
RequiredFields == {"name", "email", "address", "phone_number"}

\* a body a handler can make an Account of
IsValidPayload(b) == b.json /\ RequiredFields \subseteq DOMAIN b.data

\* a JSON object with a required field missing
IsIncomplete(b) == b.json /\ ~(RequiredFields \subseteq DOMAIN b.data)

UniqueIds(db) == \A r \in db, q \in db : r.id = q.id => r = q

OnAccount(m, rq) == rq.method = m /\ rq.path = "/accounts/<id>"
OnAccounts(m, rq) == rq.method = m /\ rq.path = "/accounts"

\* the serialized account `a` holds what payload `b` asks for: the strings as
\* given, the phone number as text, the date given or else the day's date
Reflects(a, b) ==
  /\ a.name = b.data.name
  /\ a.email = b.data.email
  /\ a.address = b.data.address
  /\ a.phone_number = CoerceStr(b.data.phone_number)
  /\ a.date_joined = IF "date_joined" \in DOMAIN b.data
                       THEN b.data.date_joined ELSE IsoFormat(Today)

\* the serialized account `a` equals payload `b` on each of the five fields
EqualsPayload(a, b) ==
  \A f \in {"name", "email", "address", "phone_number", "date_joined"} :
    f \in DOMAIN b.data /\ a[f] = b.data[f]

\* the step is a POST /accounts answered 201
Created == OnAccounts("POST", req') /\ resp'.status = HTTP_201_CREATED

\* C1 as stated: after a successful create, a read of the returned id yields
\* 200 and a record equal to the payload on name, email, address, phone_number
\* and date_joined, and the id is positive and was not in the store before.
C1_CreateThenReadEqualsPayload ==
  [][Created =>
       LET id == resp'.body[1].id
           got == read_account(store', id)
       IN  /\ got.status = HTTP_200_OK
           /\ EqualsPayload(got.body[1], req'.body)
           /\ id > 0 /\ id \notin Ids(store)]_vars

\* C1 as amended: after a successful create, a read of the returned id yields
\* 200 and a record equal to the payload on name, email and address, whose
\* phone_number is the payload's as a string and whose date_joined is the
\* payload's when it gives one and the creation date when it does not; the id
\* is positive and was not in the store before.
C1_CreateThenRead ==
  [][Created =>
       LET id == resp'.body[1].id
           got == read_account(store', id)
       IN  /\ got.status = HTTP_200_OK
           /\ got.kind = "object"
           /\ got.body[1].id = id
           /\ Reflects(got.body[1], req'.body)
           /\ id > 0 /\ id \notin Ids(store)]_vars

C1_Witness ==
  /\ OnAccounts("POST", req) /\ resp.status = HTTP_201_CREATED
  /\ req.body = BodyJeronimo
  /\ resp.body[1].phone_number = PhoneStr("42")
  /\ Cardinality(store) >= 2

\* C2: DELETE /accounts/{id} answers 204 with an empty body whether or not the
\* id exists; afterwards the id is absent and every other row is as it was, a
\* delete of an absent id changes nothing, and the same delete again answers
\* 204 again.
C2_DeleteIdempotent ==
  [][OnAccount("DELETE", req') =>
       LET again == delete_account(store', nextId', req'.id)
       IN  /\ resp'.status = HTTP_204_NO_CONTENT
           /\ resp'.kind = "empty" /\ resp'.body = <<>>
           /\ req'.id \notin Ids(store')
           /\ store' = {r \in store : r.id # req'.id}
           /\ (req'.id \notin Ids(store) => store' = store)
           /\ again.resp.status = HTTP_204_NO_CONTENT
           /\ again.resp.body = <<>>
           /\ again.store = store']_vars

C2_Witness ==
  /\ OnAccount("DELETE", req) /\ resp.status = HTTP_204_NO_CONTENT
  /\ nRemoved >= 1 /\ req.id \notin Ids(store) /\ req.id < nextId
  /\ store # {}

\* C3: GET /accounts answers 200 with a list holding each persisted Account
\* once and nothing else: the empty list on an empty store, and N elements
\* after N creates with no delete.
C3_ListAll ==
  LET r == list_accounts(store)
  IN  /\ r.status = HTTP_200_OK /\ r.kind = "array"
      /\ Len(r.body) = Cardinality(store)
      /\ \A row \in store :
           Cardinality({i \in 1..Len(r.body) : r.body[i] = serialize(row)}) = 1
      /\ (store = {} => r.body = <<>>)
      /\ (nRemoved = 0 => Len(r.body) = nCreated)
      /\ (OnAccounts("GET", req) => resp = r)

C3_Witness ==
  /\ OnAccounts("GET", req) /\ resp.status = HTTP_200_OK
  /\ Len(resp.body) >= 2 /\ nRemoved = 0 /\ nCreated = Len(resp.body)

\* C4: POST /accounts without Content-Type application/json answers 415
\* whatever the body; with it and a body missing a required field, 400.
C4_CreateRejects ==
  OnAccounts("POST", req) =>
    /\ (req.ctype # "application/json"
          => resp.status = HTTP_415_UNSUPPORTED_MEDIA_TYPE)
    /\ (req.ctype = "application/json" /\ IsIncomplete(req.body)
          => resp.status = HTTP_400_BAD_REQUEST)

C4_Witness ==
  /\ OnAccounts("POST", req) /\ req.ctype = "test/html"
  /\ IsValidPayload(req.body)
  /\ resp.status = HTTP_415_UNSUPPORTED_MEDIA_TYPE

NamesId(msg, id) == \E i \in 1..Len(msg) : msg[i] = ToString(id)

\* C6: GET and PUT /accounts/{id} on an absent id both answer 404 with a
\* message that names the missing id.
C6_NotFoundNamesId ==
  [][(OnAccount("GET", req') \/ OnAccount("PUT", req'))
       /\ req'.id \notin Ids(store)
       => /\ resp'.status = HTTP_404_NOT_FOUND
          /\ NamesId(resp'.message, req'.id)]_vars

\* C7: no two persisted Accounts share an id, and an update on id k, whatever
\* id its body carries, leaves an account under k, the same ids in the store
\* and every other row as it was.
C7_IdsUniqueAndFixed ==
  /\ []UniqueIds(store)
  /\ [][OnAccount("PUT", req') =>
          /\ Ids(store') = Ids(store)
          /\ Cardinality(store') = Cardinality(store)
          /\ \A r \in store : r.id # req'.id => r \in store'
          /\ (resp'.status = HTTP_200_OK =>
                /\ resp'.body[1].id = req'.id
                /\ Account_find(store', req'.id).found)]_vars

C7_Witness ==
  /\ OnAccount("PUT", req) /\ resp.status = HTTP_200_OK
  /\ req.body = BodyWithId /\ req.id = 2
  /\ Ids(store) = {1, 2}

\* a PUT answers 200 only for an account that is in the table as it answers
NoStalePut ==
  \A w \in Workers :
    (/\ pc[w] = "mutate" /\ pc'[w] = "done" /\ creq[w].method = "PUT"
     /\ cresp'[w].status = HTTP_200_OK)
    => /\ creq[w].id \in Ids(store)
       /\ creq[w].id \in Ids(store')

\* C8: every interleaving of two simultaneous requests gives the responses
\* and the table of one of their two sequential orders, and a PUT neither
\* answers 200 for nor writes back an account a DELETE has removed meanwhile.
C8_SafelyConcurrent ==
  /\ [](AllDone => Linearizable)
  /\ [][NoStalePut]_vars

ErrorStatuses ==
  {HTTP_400_BAD_REQUEST, HTTP_404_NOT_FOUND, HTTP_405_METHOD_NOT_ALLOWED,
   HTTP_415_UNSUPPORTED_MEDIA_TYPE}

\* C10: a request answered 400, 404, 405 or 415, and every GET, leaves the
\* persisted Accounts and their fields as they were.
C10_Frame ==
  [][(resp'.status \in ErrorStatuses \/ req'.method = "GET")
       => store' = store /\ nextId' = nextId]_vars

C10_Witness ==
  /\ OnAccount("PUT", req) /\ resp.status = HTTP_400_BAD_REQUEST
  /\ req.body = BodyNoAddress
  /\ \E r \in store : r.id = req.id /\ r.name = "Rofrano"

====
